---- MODULE Spec2Model ----
(***************************************************************************)
(* Model of scripts/run_evaluation.py: the evaluation harness that replays *)
(* the question/answer pairs of evaluation.xml against a model service     *)
(* that may call the tools of an MCP tool server.                          *)
(*                                                                         *)
(* Strings are sequences of one-character strings.  The harness is one     *)
(* sequential coroutine; pc is its position, and there is one action per   *)
(* stretch of code between two interactions with the outside (the model    *)
(* service, the tool server, the operator, the file system).  A local of   *)
(* the loop body that the code does not read again is set back to its      *)
(* empty value, so that dead values do not distinguish states.             *)
(***************************************************************************)
EXTENDS Integers, Sequences, FiniteSets, TLC

\* ------------------------------------------------------------ bounds

\* Largest number of qa_pair elements of the dataset file.
MaxPairs == 2

\* Largest number of content blocks of one model response.
MaxBlocks == 2

\* ----------------------------------------------------------- strings

\* str.lower() on one character.
LowerChar(c) ==
  CASE c = "A" -> "a"
    [] c = "B" -> "b"
    [] c = "Y" -> "y"
    [] OTHER -> c

\* str.lower()
Lower(s) == [k \in 1..Len(s) |-> LowerChar(s[k])]

IsSpace(c) == c = " "

RECURSIVE LStrip(_)
LStrip(s) ==
  IF s # <<>> /\ IsSpace(Head(s)) THEN LStrip(Tail(s)) ELSE s

RECURSIVE RStrip(_)
RStrip(s) ==
  IF s # <<>> /\ IsSpace(s[Len(s)]) THEN RStrip(SubSeq(s, 1, Len(s) - 1)) ELSE s

\* str.strip()
Strip(s) == RStrip(LStrip(s))

\* Python's `sub in s` on strings.
Contains(sub, s) ==
  \E k \in 0..(Len(s) - Len(sub)) : SubSeq(s, k + 1, k + Len(sub)) = sub

\* A mismatch rule that demands equality after case folding.
JudgeEquality(expected, actual) == Lower(expected) = Lower(actual)

\* A containment rule that forgets the case folding.
JudgeCaseSensitive(expected, actual) == Contains(expected, actual)

\* Line 173: passed = pair['answer'].lower() in final_answer.lower()
Judge(expected, actual) == Contains(Lower(expected), Lower(actual))

\* ------------------------------------------------------ dataset file

\* A field of a qa_pair element of the file: its text, or Missing (the
\* element is absent: pair.find() returns None) or NoText (the element is
\* empty: its .text is None).
TextField(s) == [kind |-> "text", text |-> s]

Missing == [kind |-> "missing", text |-> <<>>]

NoText == [kind |-> "notext", text |-> <<>>]

IsText(field) == field.kind = "text"

\* The text of the question element of the k-th pair, as written in the file.
RawQuestion(k) == [j \in 1..(k + 1) |-> IF j <= k THEN "q" ELSE " "]

RawAnswers == { <<" ", "A", "a">>, <<" ">> }

RawPairs(k) ==
  [question : {TextField(RawQuestion(k)), Missing},
   answer : {TextField(a) : a \in RawAnswers} \cup {Missing, NoText}]

PairLists ==
  UNION { { f \in [1..n -> UNION {RawPairs(k) : k \in 1..n}] :
              \A k \in 1..n : f[k] \in RawPairs(k) } : n \in 0..MaxPairs }

\* A dataset file: whether it parses as XML, and its qa_pair elements.
Malformed == [wellformed |-> FALSE, pairs |-> <<>>]

XmlFile(pairs) == [wellformed |-> TRUE, pairs |-> pairs]

Files == {Malformed} \cup {XmlFile(f) : f \in PairLists}

\* A parse that gives up only on a bad first pair and skips a bad later one.
ParseFailsOnFirstPair(f) ==
  \/ ~f.wellformed
  \/ /\ f.pairs # <<>>
     /\ ~IsText(f.pairs[1].question) \/ ~IsText(f.pairs[1].answer)

\* Lines 64-76: does ET.parse or the loop over the qa_pair elements raise.
ParseFails(f) ==
  \/ ~f.wellformed
  \/ \E k \in 1..Len(f.pairs) : ~IsText(f.pairs[k].question) \/ ~IsText(f.pairs[k].answer)

\* Lines 67-71: the pairs, each field stripped.
ParsePairs(f) ==
  [k \in 1..Len(f.pairs) |->
     [question |-> Strip(f.pairs[k].question.text), answer |-> Strip(f.pairs[k].answer.text)]]

\* ElementTree writes an element whose text is "" as an empty element.
WriteField(s) == IF s = <<>> THEN NoText ELSE TextField(s)

\* Lines 26-39: the file that save_evaluation_file writes.
Serialize(pairs) ==
  XmlFile([k \in 1..Len(pairs) |->
     [question |-> WriteField(pairs[k].question), answer |-> WriteField(pairs[k].answer)]])

\* ------------------------------------------------- model service, tools

Texts == { <<"a">>, <<" ">> }

TextBlock(t) == [type |-> "text", text |-> t, id |-> 0]

\* A tool-invocation request; its name and input are not modelled.
ToolUseBlock(id) == [type |-> "tool_use", text |-> <<>>, id |-> id]

\* The service gives each request of a response an id of its own: here the
\* position of the block in the response.
Blocks(j) == {TextBlock(t) : t \in Texts} \cup {ToolUseBlock(j)}

Contents ==
  UNION { { c \in [1..n -> UNION {Blocks(j) : j \in 1..n}] :
              \A j \in 1..n : c[j] \in Blocks(j) } : n \in 0..MaxBlocks }

StopReasons == {"tool_use", "end_turn"}

\* What client.messages.create returns: the stop indicator and the blocks.
Responses == [stop_reason : StopReasons, content : Contents]

NoResponse == [stop_reason |-> "none", content |-> <<>>]

\* What session.call_tool returns: content items, with a text or without.
TextItem(t) == [hasText |-> TRUE, text |-> t]

OtherItem == [hasText |-> FALSE, text |-> <<>>]

\* str(item) of an item without a text attribute.
StrOf(item) == <<"#">>

ToolResults == { [content |-> <<TextItem(<<"r">>), OtherItem>>] }

\* Lines 134-139: the items of a tool result joined into one string.
RECURSIVE ContentStr(_)
ContentStr(items) ==
  IF items = <<>> THEN <<>>
  ELSE (IF Head(items).hasText THEN Head(items).text ELSE StrOf(Head(items)))
         \o ContentStr(Tail(items))

\* Lines 159-161 and 164-166: the text blocks of a response joined.
RECURSIVE ConcatText(_)
ConcatText(content) ==
  IF content = <<>> THEN <<>>
  ELSE (IF Head(content).type = "text" THEN Head(content).text ELSE <<>>)
         \o ConcatText(Tail(content))

\* The position of the first tool_use block of content after position k,
\* 0 when there is none (the loop of line 127 with the test of line 128).
NextToolUse(content, k) ==
  IF \E j \in (k + 1)..Len(content) : content[j].type = "tool_use"
  THEN CHOOSE j \in (k + 1)..Len(content) :
         /\ content[j].type = "tool_use"
         /\ \A h \in (k + 1)..(j - 1) : content[h].type # "tool_use"
  ELSE 0

ToolUseCount(content) ==
  Cardinality({j \in 1..Len(content) : content[j].type = "tool_use"})

\* What the operator may type at the prompt of line 181.
Inputs == { <<"y">>, <<"Y">>, <<"n">>, <<"y", "e", "s">> }

\* The operator's decision: typing y, in either case, accepts.
OperatorAccepts(input) == input \in { <<"y">>, <<"Y">> }

\* ------------------------------------------------------------- state

VARIABLES
  pc,             \* the position of run_evaluation
  args_update,    \* args.update: the --update flag
  server_exists,  \* os.path.exists(SERVER_SCRIPT)
  file_exists,    \* os.path.exists(EVALUATION_FILE)
  api_key,        \* whether ANTHROPIC_API_KEY is set
  file,           \* the contents of EVALUATION_FILE
  qa_pairs,       \* the pairs in memory
  results,        \* the EvaluationResults gathered
  updates_made,
  session,        \* the tool session: "unopened", "open" or "closed"
  i,              \* the index of the pair in work (from 1), 0 outside the loop
  messages,       \* the conversation of the question in work
  response,       \* the first response of the model service
  tool_results,   \* the tool_result blocks gathered
  blk,            \* the position in response.content of the tool_use block to call
  final_response, \* the second response of the model service
  final_answer,
  summary,        \* the printed summary, once printed
  \* What happened, for the properties (the code keeps none of these):
  loaded,         \* the pairs as parsed from the file
  opens,          \* how often the tool session was opened
  model_calls,    \* model-service calls answered so far for the question in work
  tool_calls,     \* tool-server calls answered so far for the question in work
  tool_requests,  \* tool_use blocks of the first response of the question in work
  first_stop,     \* stop indicator of the first response of the question in work
  failure,        \* the exception that ended the loop: what raised, and for which question
  decisions,      \* per question done: "accept", "decline", or "none" (no prompt)
  saves,          \* how often save_evaluation_file was called
  writes          \* how often the dataset file was opened for writing

vars ==
  <<pc, args_update, server_exists, file_exists, api_key, file, qa_pairs, results,
    updates_made, session, i, messages, response, tool_results, blk, final_response,
    final_answer, summary, loaded, opens, model_calls, tool_calls, tool_requests,
    first_stop, failure, decisions, saves, writes>>

environment == <<args_update, server_exists, file_exists, api_key>>

locals == <<messages, response, tool_results, blk, final_response, final_answer>>

question_history == <<model_calls, tool_calls, tool_requests, first_stop>>

NoFailure == [kind |-> "none", at |-> 0]

\* The history of the question in work; none is in work outside the loop
\* body.
SetHistory(mc, tc, tr, fs) ==
  /\ model_calls' = mc
  /\ tool_calls' = tc
  /\ tool_requests' = tr
  /\ first_stop' = fs

ClearHistory == SetHistory(0, 0, 0, "none")

NoSummary == [printed |-> FALSE, total |-> 0, passed |-> 0, failed |-> 0]

Init ==
  /\ pc = "start"
  /\ args_update \in BOOLEAN
  /\ server_exists \in BOOLEAN
  /\ file_exists \in BOOLEAN
  /\ api_key \in BOOLEAN
  /\ file \in Files
  /\ qa_pairs = <<>>
  /\ results = <<>>
  /\ updates_made = FALSE
  /\ session = "unopened"
  /\ i = 0
  /\ messages = <<>>
  /\ response = NoResponse
  /\ tool_results = <<>>
  /\ blk = 0
  /\ final_response = NoResponse
  /\ final_answer = <<>>
  /\ summary = NoSummary
  /\ loaded = <<>>
  /\ opens = 0
  /\ model_calls = 0
  /\ tool_calls = 0
  /\ tool_requests = 0
  /\ first_stop = "none"
  /\ failure = NoFailure
  /\ decisions = <<>>
  /\ saves = 0
  /\ writes = 0

\* ------------------------------------------------------- before the loop

\* A prerequisite check that forgets the API key (the test of line 59).
CheckPrerequisitesWithoutKey ==
  /\ pc = "start"
  /\ pc' = IF server_exists /\ file_exists THEN "parse" ELSE "done"
  /\ UNCHANGED <<environment, file, qa_pairs, results, updates_made, session, i, locals,
                 summary, loaded, opens, question_history, failure,
                 decisions, saves, writes>>

\* Lines 49-61: a missing prerequisite ends the run.
CheckPrerequisites ==
  /\ pc = "start"
  /\ pc' = IF server_exists /\ file_exists /\ api_key THEN "parse" ELSE "done"
  /\ UNCHANGED <<environment, file, qa_pairs, results, updates_made, session, i, locals,
                 summary, loaded, opens, question_history, failure,
                 decisions, saves, writes>>

\* Lines 63-76: parse the file; a parse error ends the run.
ParseQuestions ==
  /\ pc = "parse"
  /\ IF ParseFails(file)
     THEN /\ pc' = "done"
          /\ UNCHANGED <<qa_pairs, loaded>>
     ELSE /\ pc' = "connect"
          /\ qa_pairs' = ParsePairs(file)
          /\ loaded' = ParsePairs(file)
  /\ UNCHANGED <<environment, file, results, updates_made, session, i, locals, summary,
                 opens, question_history, failure, decisions, saves, writes>>

\* An exception handler that forgets to leave the `async with` blocks.
RaiseKeepsSession(kind) ==
  /\ failure' = [kind |-> kind, at |-> i]
  /\ session' = session
  /\ i' = i
  /\ pc' = "after_loop"
  /\ messages' = <<>>
  /\ response' = NoResponse
  /\ tool_results' = <<>>
  /\ blk' = 0
  /\ final_response' = NoResponse
  /\ final_answer' = <<>>
  /\ ClearHistory

\* An exception handler inside the loop body: the loop goes on with the
\* next pair.
RaiseSkipsQuestion(kind) ==
  /\ failure' = [kind |-> kind, at |-> i]
  /\ IF i >= 1 /\ i < Len(qa_pairs)
     THEN /\ i' = i + 1
          /\ pc' = "first_call"
          /\ session' = session
     ELSE /\ i' = i
          /\ pc' = "after_loop"
          /\ session' = IF session = "open" THEN "closed" ELSE session
  /\ messages' = <<>>
  /\ response' = NoResponse
  /\ tool_results' = <<>>
  /\ blk' = 0
  /\ final_response' = NoResponse
  /\ final_answer' = <<>>
  /\ ClearHistory

\* Lines 90-92 and 200-203: an exception raised inside the try leaves the
\* loop and both `async with` blocks, which closes the session if it was
\* open, and is caught by the handler of line 200; the code after the try
\* runs next.
Raise(kind) ==
  /\ failure' = [kind |-> kind, at |-> i]
  /\ session' = IF session = "open" THEN "closed" ELSE session
  /\ i' = i
  /\ pc' = "after_loop"
  /\ messages' = <<>>
  /\ response' = NoResponse
  /\ tool_results' = <<>>
  /\ blk' = 0
  /\ final_response' = NoResponse
  /\ final_answer' = <<>>
  /\ ClearHistory

\* Lines 91-92: start the server process and enter the session.
Connect ==
  /\ pc = "connect"
  /\ pc' = "initialize"
  /\ session' = "open"
  /\ opens' = opens + 1
  /\ UNCHANGED <<environment, file, qa_pairs, results, updates_made, i, locals, summary,
                 loaded, question_history, failure, decisions, saves, writes>>

ConnectFails ==
  /\ pc = "connect"
  /\ Raise("connect")
  /\ UNCHANGED <<environment, file, qa_pairs, results, updates_made, summary, loaded,
                 opens, decisions, saves, writes>>

\* Line 93.
Initialize ==
  /\ pc = "initialize"
  /\ pc' = "list_tools"
  /\ UNCHANGED <<environment, file, qa_pairs, results, updates_made, session, i, locals,
                 summary, loaded, opens, question_history, failure,
                 decisions, saves, writes>>

InitializeFails ==
  /\ pc = "initialize"
  /\ Raise("initialize")
  /\ UNCHANGED <<environment, file, qa_pairs, results, updates_made, summary, loaded,
                 opens, decisions, saves, writes>>

\* Lines 96-105: list the tools and enter the loop; with no pair the loop
\* and both `async with` blocks end at once.
ListTools ==
  /\ pc = "list_tools"
  /\ IF qa_pairs = <<>>
     THEN /\ pc' = "after_loop"
          /\ session' = "closed"
          /\ i' = i
     ELSE /\ pc' = "first_call"
          /\ session' = session
          /\ i' = 1
  /\ UNCHANGED <<environment, file, qa_pairs, results, updates_made, locals, summary,
                 loaded, opens, question_history, failure, decisions,
                 saves, writes>>

ListToolsFails ==
  /\ pc = "list_tools"
  /\ Raise("list_tools")
  /\ UNCHANGED <<environment, file, qa_pairs, results, updates_made, summary, loaded,
                 opens, decisions, saves, writes>>

\* ------------------------------------------------------------- the loop

\* Line 105: the loop goes to the next pair; after the last one both
\* `async with` blocks end, which closes the session.
NextIteration ==
  /\ IF i < Len(qa_pairs)
     THEN /\ i' = i + 1
          /\ pc' = "first_call"
          /\ session' = session
     ELSE /\ i' = i
          /\ pc' = "after_loop"
          /\ session' = "closed"
  /\ messages' = <<>>
  /\ response' = NoResponse
  /\ tool_results' = <<>>
  /\ blk' = 0
  /\ final_response' = NoResponse
  /\ final_answer' = <<>>
  /\ ClearHistory

\* A result that reports the answer the pair had when the question was
\* asked (a copy of the pair taken before the update).
RecordLoadedAnswer(pairs, actual, passed, decision) ==
  /\ results' = Append(results, [question |-> qa_pairs[i].question,
                                 expected |-> qa_pairs[i].answer,
                                 actual |-> actual,
                                 passed |-> passed])
  /\ qa_pairs' = pairs
  /\ decisions' = Append(decisions, decision)
  /\ NextIteration

\* Lines 190-198: append the EvaluationResult of pair i; pair is
\* qa_pairs[i] itself, so expected is the answer as it is now.
Record(pairs, actual, passed, decision) ==
  /\ results' = Append(results, [question |-> pairs[i].question,
                                 expected |-> pairs[i].answer,
                                 actual |-> actual,
                                 passed |-> passed])
  /\ qa_pairs' = pairs
  /\ decisions' = Append(decisions, decision)
  /\ NextIteration

\* A mismatch that asks the operator whether or not --update was given.
EndTurnPromptsAlways(text, first, second, mc, tc, tr, fs) ==
  LET answer == Strip(text)
      passed == Judge(qa_pairs[i].answer, answer)
  IN  IF ~passed
      THEN /\ pc' = "prompt"
           /\ final_answer' = answer
           /\ response' = first
           /\ final_response' = second
           /\ messages' = <<>>
           /\ tool_results' = <<>>
           /\ blk' = 0
           /\ SetHistory(mc, tc, tr, fs)
           /\ UNCHANGED <<qa_pairs, results, decisions, session, i>>
      ELSE Record(qa_pairs, answer, passed, "none")

\* Lines 168-175 and 190-198: strip the answer and judge it; a mismatch in
\* update mode waits for the operator, anything else is recorded.  first
\* and second are the responses at hand, mc, tc, tr and fs the history of
\* the question.
EndTurn(text, first, second, mc, tc, tr, fs) ==
  LET answer == Strip(text)
      passed == Judge(qa_pairs[i].answer, answer)
  IN  IF ~passed /\ args_update
      THEN /\ pc' = "prompt"
           /\ final_answer' = answer
           /\ response' = first
           /\ final_response' = second
           /\ messages' = <<>>
           /\ tool_results' = <<>>
           /\ blk' = 0
           /\ SetHistory(mc, tc, tr, fs)
           /\ UNCHANGED <<qa_pairs, results, decisions, session, i>>
      ELSE Record(qa_pairs, answer, passed, "none")

\* The test of line 122 taken on the content instead of the stop indicator.
WantsToolsByContent(resp) == ToolUseCount(resp.content) > 0

\* Line 122: response.stop_reason == "tool_use"
WantsTools(resp) == resp.stop_reason = "tool_use"

\* Line 148: the tool results become one user message.
WithToolResults(msgs, trs) == Append(msgs, [role |-> "user", content |-> trs])

\* Lines 109-127 and 162-166: the first call of the model service for pair
\* i.  A response that asks for tools is appended to the conversation and
\* its tool_use blocks are worked through; any other response is the answer.
FirstCall(resp) ==
  /\ pc = "first_call"
  /\ LET asked == <<[role |-> "user", content |-> qa_pairs[i].question]>>
         withResponse == Append(asked, [role |-> "assistant", content |-> resp.content])
         first == NextToolUse(resp.content, 0)
     IN  IF WantsTools(resp)
         THEN /\ SetHistory(1, 0, ToolUseCount(resp.content), resp.stop_reason)
              /\ response' = resp
              /\ tool_results' = <<>>
              /\ blk' = first
              /\ final_response' = NoResponse
              /\ final_answer' = <<>>
              /\ IF first = 0
                 THEN /\ messages' = WithToolResults(withResponse, <<>>)
                      /\ pc' = "second_call"
                 ELSE /\ messages' = withResponse
                      /\ pc' = "tool_call"
              /\ UNCHANGED <<qa_pairs, results, decisions, session, i>>
         ELSE EndTurn(ConcatText(resp.content), resp, NoResponse,
                      1, 0, ToolUseCount(resp.content), resp.stop_reason)
  /\ UNCHANGED <<environment, file, updates_made, summary, loaded, opens,
                 failure, saves, writes>>

\* Line 112 raises.
FirstCallFails ==
  /\ pc = "first_call"
  /\ Raise("model")
  /\ UNCHANGED <<environment, file, qa_pairs, results, updates_made, summary, loaded,
                 opens, decisions, saves, writes>>

\* A tool_result block numbered by its place among the results instead of
\* echoing the id of its request.
ToolResultBlockByCount(block, res) ==
  [type |-> "tool_result", tool_use_id |-> Len(tool_results) + 1,
   content |-> ContentStr(res.content)]

\* Lines 141-145: the tool_result block for a tool_use block.
ToolResultBlock(block, res) ==
  [type |-> "tool_result", tool_use_id |-> block.id, content |-> ContentStr(res.content)]

\* Lines 127-148: call the tool of the tool_use block at blk, keep its
\* result, and go to the next tool_use block; after the last one the
\* results are appended to the conversation.
ToolCall(res) ==
  /\ pc = "tool_call"
  /\ tool_calls' = tool_calls + 1
  /\ LET next == NextToolUse(response.content, blk)
         trs == Append(tool_results, ToolResultBlock(response.content[blk], res))
     IN  /\ tool_results' = trs
         /\ blk' = next
         /\ IF next = 0
            THEN /\ messages' = WithToolResults(messages, trs)
                 /\ pc' = "second_call"
            ELSE /\ messages' = messages
                 /\ pc' = "tool_call"
  /\ UNCHANGED <<environment, file, qa_pairs, results, updates_made, session, i, response,
                 final_response, final_answer, summary, loaded, opens, model_calls,
                 tool_requests, first_stop, failure, decisions, saves, writes>>

\* Line 130 raises: the server reported an execution error for the call
\* ("tool_execution"), or the session's transport failed ("tool_transport").
ToolCallFails(kind) ==
  /\ pc = "tool_call"
  /\ Raise(kind)
  /\ UNCHANGED <<environment, file, qa_pairs, results, updates_made, summary, loaded,
                 opens, decisions, saves, writes>>

\* A second call that serves the tool requests of its response again (an
\* agent loop without the cap of two turns).
SecondCallLoops(resp) ==
  /\ pc = "second_call"
  /\ IF WantsTools(resp) /\ NextToolUse(resp.content, 0) # 0
     THEN /\ SetHistory(model_calls + 1, tool_calls, tool_requests, first_stop)
          /\ response' = resp
          /\ tool_results' = <<>>
          /\ blk' = NextToolUse(resp.content, 0)
          /\ messages' = Append(messages, [role |-> "assistant", content |-> resp.content])
          /\ final_response' = NoResponse
          /\ final_answer' = <<>>
          /\ pc' = "tool_call"
          /\ UNCHANGED <<qa_pairs, results, decisions, session, i>>
     ELSE EndTurn(ConcatText(resp.content), NoResponse, resp,
                  model_calls + 1, tool_calls, tool_requests, first_stop)
  /\ UNCHANGED <<environment, file, updates_made, summary, loaded, opens, failure, saves, writes>>

\* A second call that goes on from the text gathered from the first
\* response instead of starting from the empty answer of line 120.
SecondCallKeepsFirstText(resp) ==
  /\ pc = "second_call"
  /\ EndTurn(ConcatText(response.content) \o ConcatText(resp.content), NoResponse, resp,
             model_calls + 1, tool_calls, tool_requests, first_stop)
  /\ UNCHANGED <<environment, file, updates_made, summary, loaded, opens, failure, saves, writes>>

\* Lines 151-161: the second call of the model service; the text of its
\* response is the answer, whatever else the response asks for.
SecondCall(resp) ==
  /\ pc = "second_call"
  /\ EndTurn(ConcatText(resp.content), NoResponse, resp,
             model_calls + 1, tool_calls, tool_requests, first_stop)
  /\ UNCHANGED <<environment, file, updates_made, summary, loaded, opens, failure, saves, writes>>

\* Line 151 raises.
SecondCallFails ==
  /\ pc = "second_call"
  /\ Raise("model")
  /\ UNCHANGED <<environment, file, qa_pairs, results, updates_made, summary, loaded,
                 opens, decisions, saves, writes>>

\* An operator prompt that takes any answer starting with y.
IsYesByPrefix(input) == input # <<>> /\ Lower(input)[1] = "y"

\* An operator prompt that forgets to fold the case.
IsYesCaseSensitive(input) == input = <<"y">>

\* Lines 181-182: input(...).lower() == 'y'
IsYes(input) == Lower(input) = <<"y">>

\* Lines 181-198: the operator answers the prompt.  On y the answer of
\* pair i becomes the produced answer and the result counts as passed.
Prompt(input) ==
  /\ pc = "prompt"
  /\ LET decision == IF OperatorAccepts(input) THEN "accept" ELSE "decline"
     IN  IF IsYes(input)
         THEN /\ updates_made' = TRUE
              /\ Record([qa_pairs EXCEPT ![i].answer = final_answer], final_answer, TRUE,
                        decision)
         ELSE /\ updates_made' = updates_made
              /\ Record(qa_pairs, final_answer, FALSE, decision)
  /\ UNCHANGED <<environment, file, summary, loaded, opens,
                 failure, saves, writes>>

\* Line 181 raises (input() at the end of standard input).
PromptFails ==
  /\ pc = "prompt"
  /\ Raise("prompt")
  /\ UNCHANGED <<environment, file, qa_pairs, results, updates_made, summary, loaded,
                 opens, decisions, saves, writes>>

\* -------------------------------------------------------- after the loop

\* A write-back that does not look at updates_made.
ShouldSaveAlways == TRUE

\* A write-back that is left out when the loop ended with an exception
\* (the save placed inside the try).
ShouldSaveUnlessFailed == updates_made /\ failure = NoFailure

\* Line 206: if updates_made
ShouldSave == updates_made

WriteOutcomes == {"written", "not_opened", "cut_short"}

\* A save_evaluation_file without the try of line 38: a failed write ends
\* the run before the summary.
SaveUpdatesAborts(outcome) ==
  /\ pc = "after_loop"
  /\ ShouldSave
  /\ saves' = saves + 1
  /\ writes' = IF outcome = "not_opened" THEN writes ELSE writes + 1
  /\ file' = CASE outcome = "written" -> Serialize(qa_pairs)
               [] outcome = "not_opened" -> file
               [] outcome = "cut_short" -> Malformed
  /\ pc' = IF outcome = "written" THEN "summary" ELSE "done"
  /\ UNCHANGED <<environment, qa_pairs, results, updates_made, session, i, locals,
                 summary, loaded, opens, question_history, failure, decisions>>

\* Lines 24-42 and 206-207: save_evaluation_file.  The write may succeed,
\* fail before the file is opened (the file stays), or fail after (the file
\* is cut short); the exception is caught at line 41.
SaveUpdates(outcome) ==
  /\ pc = "after_loop"
  /\ ShouldSave
  /\ saves' = saves + 1
  /\ writes' = IF outcome = "not_opened" THEN writes ELSE writes + 1
  /\ file' = CASE outcome = "written" -> Serialize(qa_pairs)
               [] outcome = "not_opened" -> file
               [] outcome = "cut_short" -> Malformed
  /\ pc' = "summary"
  /\ UNCHANGED <<environment, qa_pairs, results, updates_made, session, i, locals,
                 summary, loaded, opens, question_history, failure, decisions>>

\* Line 206 with updates_made false.
SkipSave ==
  /\ pc = "after_loop"
  /\ ~ShouldSave
  /\ pc' = "summary"
  /\ UNCHANGED <<environment, file, qa_pairs, results, updates_made, session, i, locals,
                 summary, loaded, opens, question_history, failure,
                 decisions, saves, writes>>

\* Line 211
PassedCount(rs) == Cardinality({k \in 1..Len(rs) : rs[k].passed})

\* Lines 209-216: the summary.
PrintSummary ==
  /\ pc = "summary"
  /\ summary' = [printed |-> TRUE,
                 total |-> Len(results),
                 passed |-> PassedCount(results),
                 failed |-> Len(results) - PassedCount(results)]
  /\ pc' = "done"
  /\ UNCHANGED <<environment, file, qa_pairs, results, updates_made, session, i, locals,
                 loaded, opens, question_history, failure, decisions,
                 saves, writes>>

\* ------------------------------------------------------ specification

Next ==
  \/ CheckPrerequisites
  \/ ParseQuestions
  \/ Connect
  \/ ConnectFails
  \/ Initialize
  \/ InitializeFails
  \/ ListTools
  \/ ListToolsFails
  \/ \E resp \in Responses : FirstCall(resp)
  \/ FirstCallFails
  \/ \E res \in ToolResults : ToolCall(res)
  \/ \E kind \in {"tool_execution", "tool_transport"} : ToolCallFails(kind)
  \/ \E resp \in Responses : SecondCall(resp)
  \/ SecondCallFails
  \/ \E input \in Inputs : Prompt(input)
  \/ PromptFails
  \/ \E outcome \in WriteOutcomes : SaveUpdates(outcome)
  \/ SkipSave
  \/ PrintSummary

Spec == Init /\ [][Next]_vars

\* --------------------------------------------- the dataset store alone

\* save_evaluation_file followed by the parse of lines 64-76, applied to
\* pairs that need not come from a run: qa_pairs holds the pairs given to
\* save_evaluation_file, loaded the pairs parsed from the file it wrote.

\* Non-empty strings without control characters, with and without spaces
\* at their ends.
StoreStrings == { <<"a">>, <<" ", "a">>, <<"a", " ">>, <<" ">> }

StorePairLists ==
  UNION { [1..n -> [question : StoreStrings, answer : StoreStrings]] : n \in 1..MaxPairs }

StoreInit ==
  /\ pc = "store_save"
  /\ qa_pairs \in StorePairLists
  /\ file = XmlFile(<<>>)
  /\ loaded = <<>>
  /\ args_update = TRUE
  /\ server_exists = TRUE
  /\ file_exists = TRUE
  /\ api_key = TRUE
  /\ results = <<>>
  /\ updates_made = TRUE
  /\ session = "unopened"
  /\ i = 0
  /\ messages = <<>>
  /\ response = NoResponse
  /\ tool_results = <<>>
  /\ blk = 0
  /\ final_response = NoResponse
  /\ final_answer = <<>>
  /\ summary = NoSummary
  /\ opens = 0
  /\ model_calls = 0
  /\ tool_calls = 0
  /\ tool_requests = 0
  /\ first_stop = "none"
  /\ failure = NoFailure
  /\ decisions = <<>>
  /\ saves = 0
  /\ writes = 0

\* Lines 24-40: save_evaluation_file writes the pairs.
StoreSave ==
  /\ pc = "store_save"
  /\ file' = Serialize(qa_pairs)
  /\ saves' = saves + 1
  /\ writes' = writes + 1
  /\ pc' = "store_load"
  /\ UNCHANGED <<environment, qa_pairs, results, updates_made, session, i, locals,
                 summary, loaded, opens, question_history, failure, decisions>>

\* Lines 64-76: the file is parsed again.
StoreLoad ==
  /\ pc = "store_load"
  /\ IF ParseFails(file)
     THEN /\ pc' = "store_failed"
          /\ loaded' = loaded
     ELSE /\ pc' = "store_loaded"
          /\ loaded' = ParsePairs(file)
  /\ UNCHANGED <<environment, file, qa_pairs, results, updates_made, session, i, locals,
                 summary, opens, question_history, failure, decisions, saves, writes>>

StoreNext == StoreSave \/ StoreLoad

StoreSpec == StoreInit /\ [][StoreNext]_vars

\* ------------------------------------------------------------ claims

InLoopBody == pc \in {"first_call", "tool_call", "second_call", "prompt"}

AfterLoop == pc \in {"after_loop", "summary", "done"}

\* C1: for every question at most two model-service calls are made and at
\* most one tool-server call per tool_use block of the first response: the
\* calls answered so far are none where the first call is made, one where
\* the second is made, and fewer than the requests where a tool is called;
\* a tool is called only between the two model-service calls, so none is
\* called after the second one, whatever the second response asks for.
C1_TurnCap ==
  /\ model_calls <= 2
  /\ tool_calls <= tool_requests
  /\ pc = "first_call" => model_calls = 0 /\ tool_calls = 0
  /\ pc = "tool_call" => model_calls = 1 /\ tool_calls < tool_requests
  /\ pc = "second_call" => model_calls = 1 /\ tool_calls = tool_requests
  /\ model_calls = 2 => pc = "prompt"

\* The second response asks for tools again, after two tool calls, and the
\* question is over (the operator is asked about its answer).
C1_Witness ==
  /\ pc = "prompt"
  /\ model_calls = 2
  /\ tool_calls = 2
  /\ final_response.stop_reason = "tool_use"
  /\ ToolUseCount(final_response.content) >= 1

\* C2: a tool-server call or a second model-service call is made only when
\* the stop indicator of the first response is tool_use; after a first
\* response with another stop indicator the question has had one
\* model-service call and no tool-server call, whatever its blocks are.
C2_NoToolsWithoutToolUseStop ==
  /\ pc \in {"tool_call", "second_call"} =>
       first_stop = "tool_use" /\ response.stop_reason = "tool_use"
  /\ first_stop \notin {"none", "tool_use"} =>
       model_calls = 1 /\ tool_calls = 0 /\ pc = "prompt"

\* A first response that stopped for another reason than tool_use and yet
\* carries a tool_use block: no tool was called for it.
C2_Witness ==
  /\ pc = "prompt"
  /\ first_stop = "end_turn"
  /\ response.stop_reason = "end_turn"
  /\ ToolUseCount(response.content) >= 1
  /\ model_calls = 1
  /\ tool_calls = 0

\* C3 as claimed: when a tool-server call fails with an execution error for
\* question k, the run is not aborted, and every later question of the
\* dataset has its EvaluationResult when the run is over.
C3_RunContinuesAfterToolError ==
  (pc = "done" /\ failure.kind = "tool_execution") =>
    \A j \in (failure.at + 1)..Len(qa_pairs) :
      \E r \in 1..Len(results) : results[r].question = qa_pairs[j].question

\* C4 as claimed: when the tool server reports an error for a tool call of
\* question k, the turn of k is aborted, and an EvaluationResult of k is
\* recorded with the empty string as its actual answer, judged against the
\* expected answer.
C4_ToolErrorGivesEmptyAnswer ==
  (AfterLoop /\ failure.kind = "tool_execution") =>
    /\ Len(results) >= failure.at
    /\ results[failure.at].question = qa_pairs[failure.at].question
    /\ results[failure.at].actual = <<>>
    /\ results[failure.at].passed = (results[failure.at].expected = <<>>)

\* C5: when a model-service call or a tool call fails with a protocol or
\* transport failure while question k is in work, the loop is over (no call
\* is made for a later question: the index stays k and the session is
\* closed), the results are those of questions 1..k-1, and the summary,
\* once printed, counts exactly these.
C5_FailureAbortsTheRest ==
  failure.kind \in {"model", "tool_transport"} =>
    /\ AfterLoop
    /\ failure.at >= 1
    /\ i = failure.at
    /\ session = "closed"
    /\ Len(results) = failure.at - 1
    /\ \A j \in 1..Len(results) : results[j].question = qa_pairs[j].question
    /\ pc = "done" =>
         /\ summary.printed
         /\ summary.total = failure.at - 1
         /\ summary.passed + summary.failed = summary.total

\* The first question of two failed with a protocol failure: the run is
\* over, the second question never got a call, and the summary counts the
\* completed questions (none).
C5_Witness ==
  /\ pc = "done"
  /\ failure.kind \in {"model", "tool_transport"}
  /\ failure.at = 1
  /\ Len(qa_pairs) = 2
  /\ summary.printed
  /\ summary.total = 0

\* expected, case-folded, occurs as a contiguous substring of actual,
\* case-folded: at some offset every character of expected matches.
FoldedOccurrence(expected, actual) ==
  \E off \in 0..Len(actual) :
    /\ off + Len(expected) <= Len(actual)
    /\ \A k \in 1..Len(expected) : LowerChar(actual[off + k]) = LowerChar(expected[k])

\* C6: outside update mode every recorded result has the expected answer
\* of the dataset as loaded and a trimmed actual answer, and its passed flag
\* is true exactly when the expected answer, case-folded, occurs as a
\* contiguous substring of the actual answer, case-folded; so an empty
\* expected answer passes and a non-empty one fails on an empty answer.
C6_JudgeRule ==
  ~args_update =>
    \A k \in 1..Len(results) :
      /\ results[k].expected = loaded[k].answer
      /\ results[k].actual = Strip(results[k].actual)
      /\ results[k].passed = FoldedOccurrence(results[k].expected, results[k].actual)
      /\ results[k].expected = <<>> => results[k].passed
      /\ (results[k].expected # <<>> /\ results[k].actual = <<>>) => ~results[k].passed

\* Outside update mode one question passed with an answer that differs
\* from the non-empty expected answer in case, and another failed with a
\* non-empty answer.
C6_Witness ==
  /\ ~args_update
  /\ \E k \in 1..Len(results) :
       /\ results[k].passed
       /\ results[k].expected # <<>>
       /\ results[k].expected # results[k].actual
  /\ \E k \in 1..Len(results) : ~results[k].passed /\ results[k].actual # <<>>

\* A step in which the operator answers the prompt with this decision.
Decides(decision) ==
  /\ pc = "prompt"
  /\ Len(decisions') = Len(decisions) + 1
  /\ decisions'[Len(decisions')] = decision

\* C7: when the operator accepts at the prompt of question i (update mode,
\* the Judge has failed it), exactly the answer of pair i changes, to the
\* produced answer, the result of i is recorded as passed with that answer,
\* and updates_made is true; once true, updates_made stays true.
C7_AcceptStep ==
  [][ /\ Decides("accept") =>
           /\ args_update
           /\ ~FoldedOccurrence(qa_pairs[i].answer, final_answer)
           /\ qa_pairs' = [qa_pairs EXCEPT ![i].answer = final_answer]
           /\ Len(results') = i
           /\ results'[i].actual = final_answer
           /\ results'[i].passed
           /\ updates_made'
      /\ updates_made => updates_made'
    ]_vars

\* The operator accepted a non-empty answer for the first of two
\* questions, and the run went on to its end.
C7_Witness ==
  /\ pc = "done"
  /\ Len(qa_pairs) = 2
  /\ Len(decisions) = 2
  /\ decisions[1] = "accept"
  /\ results[1].actual # <<>>
  /\ qa_pairs[1].answer = results[1].actual
  /\ qa_pairs[1].answer # loaded[1].answer
  /\ updates_made

\* C8: when the operator gives another answer than accept at the prompt of
\* question i, the dataset in memory and updates_made stay as they are and
\* the result of i is recorded as failed; the summary's failed count is the
\* number of failed results, the declined ones among them.
C8_DeclineStep ==
  [][ /\ Decides("decline") =>
           /\ qa_pairs' = qa_pairs
           /\ updates_made' = updates_made
           /\ Len(results') = i
           /\ results'[i].actual = final_answer
           /\ ~results'[i].passed
      /\ (pc = "summary" /\ pc' = "done") =>
           /\ \A k \in 1..Len(decisions) : decisions[k] = "decline" => ~results[k].passed
           /\ summary'.failed = Cardinality({k \in 1..Len(results) : ~results[k].passed})
    ]_vars

\* The operator declined the only mismatch of the run: nothing was updated
\* and the summary counts the question as failed.
C8_Witness ==
  /\ pc = "done"
  /\ \E k \in 1..Len(decisions) : decisions[k] = "decline"
  /\ ~updates_made
  /\ qa_pairs = loaded
  /\ summary.failed >= 1

\* C9: once the loop has ended, updates_made is true exactly when the
\* operator accepted an update, and while it is false save_evaluation_file
\* has not been called and the dataset file has not been written.
C9_SaveOnlyIfUpdated ==
  AfterLoop =>
    /\ updates_made <=> \E k \in 1..Len(decisions) : decisions[k] = "accept"
    /\ ~updates_made => saves = 0 /\ writes = 0
    /\ saves <= 1

\* A run in update mode whose only mismatch the operator declined is over
\* and nothing was saved.
C9_Witness ==
  /\ pc = "done"
  /\ args_update
  /\ \E k \in 1..Len(decisions) : decisions[k] = "decline"
  /\ ~updates_made
  /\ saves = 0
  /\ writes = 0

\* C10: the tool session is opened at most once; it is open wherever the
\* code calls the tool server (initialize, list_tools, call_tool) and
\* throughout the loop, and closed once the loop has been left, on every
\* path.
C10_SessionScope ==
  /\ opens <= 1
  /\ (session = "unopened") <=> (opens = 0)
  /\ (InLoopBody \/ pc \in {"initialize", "list_tools"}) => session = "open"
  /\ AfterLoop => session # "open"

\* The loop was left by a failed tool call and the session is closed at the
\* end of the run.
C10_Witness ==
  /\ pc = "done"
  /\ opens = 1
  /\ session = "closed"
  /\ failure.kind = "tool_transport"

Prerequisites == server_exists /\ file_exists /\ api_key

\* Nothing past the prerequisite check and the parse has happened: no pair
\* is in memory, the tool session was never opened, no question was taken
\* up (so no model-service or tool-server call was made), the dataset file
\* was not written and no summary was printed.
NothingAttempted ==
  /\ qa_pairs = <<>>
  /\ loaded = <<>>
  /\ session = "unopened"
  /\ opens = 0
  /\ i = 0
  /\ ~InLoopBody
  /\ model_calls = 0
  /\ tool_calls = 0
  /\ results = <<>>
  /\ saves = 0
  /\ writes = 0
  /\ ~summary.printed

\* C11: if a precondition is missing (server script absent, dataset file
\* absent, or API key unset), the run goes from its start straight to its
\* end: the dataset is not loaded, the tool session is not opened, no
\* model-service or tool-server call is made, the dataset file is not
\* written and no summary is printed.
C11_MissingPrerequisiteEndsRun ==
  ~Prerequisites =>
    /\ pc \in {"start", "done"}
    /\ NothingAttempted

\* The run is over for want of the API key alone, with a dataset file of
\* two pairs that would have loaded.
C11_Witness ==
  /\ pc = "done"
  /\ server_exists
  /\ file_exists
  /\ ~api_key
  /\ ~ParseFails(file)
  /\ Len(file.pairs) = 2
  /\ NothingAttempted

\* The file is no XML, or one of its qa_pair elements has no question or no
\* answer element.
LacksElement(f) ==
  \/ ~f.wellformed
  \/ \E k \in 1..Len(f.pairs) :
       f.pairs[k].question.kind = "missing" \/ f.pairs[k].answer.kind = "missing"

\* C12: if the dataset file is unparsable or a qa_pair of it lacks its
\* question or answer element, the parse step ends the run, whatever pairs
\* came before the bad one: no pair is kept, the session is not opened, no
\* question is taken up, the file stays as it is and is not written; and
\* nothing happens after the run has ended.
C12_LoadFailureEndsRun ==
  [][ /\ (pc = "parse" /\ LacksElement(file)) =>
           /\ pc' = "done"
           /\ NothingAttempted'
           /\ file' = file
      /\ pc = "done" => UNCHANGED vars
    ]_vars

\* The run is over after the parse of a file whose first pair is complete
\* and whose second pair has no answer element.
C12_Witness ==
  /\ pc = "done"
  /\ Prerequisites
  /\ file.wellformed
  /\ Len(file.pairs) = 2
  /\ IsText(file.pairs[1].question)
  /\ IsText(file.pairs[1].answer)
  /\ file.pairs[2].answer = Missing
  /\ NothingAttempted

\* C13: a step in which save_evaluation_file is called and the write fails
\* (the file was not opened for writing, or was left cut short) keeps the
\* results and leads to the summary; and the summary step, after a failed
\* write as after any other, prints the number of results, of passed
\* results and of failed results in memory.
C13_WriteFailureKeepsSummary ==
  [][ /\ (pc = "after_loop" /\ saves' = saves + 1 /\ (writes' = writes \/ ~file'.wellformed)) =>
           /\ pc' = "summary"
           /\ results' = results
           /\ qa_pairs' = qa_pairs
      /\ pc = "summary" =>
           /\ pc' = "done"
           /\ summary'.printed
           /\ summary'.total = Len(results)
           /\ summary'.passed = Cardinality({k \in 1..Len(results) : results[k].passed})
           /\ summary'.failed = Cardinality({k \in 1..Len(results) : ~results[k].passed})
    ]_vars

\* The write was cut short after one accepted and one declined update, and
\* the summary was printed with both questions counted.
C13_Witness ==
  /\ pc = "done"
  /\ saves = 1
  /\ writes = 1
  /\ ~file.wellformed
  /\ summary.printed
  /\ summary.total = 2
  /\ summary.passed = 1
  /\ summary.failed = 1

\* C14 as claimed: for every non-empty sequence of pairs whose questions
\* and answers are non-empty strings without control characters, strings
\* with spaces at their ends and strings of spaces alone among them, the
\* file that save_evaluation_file writes loads, and the pairs loaded are as
\* many, in the same order, with the same question and the same answer in
\* every position.
C14_RoundTrip ==
  /\ pc # "store_failed"
  /\ pc = "store_loaded" =>
       /\ Len(loaded) = Len(qa_pairs)
       /\ \A k \in 1..Len(qa_pairs) :
            /\ loaded[k].question = qa_pairs[k].question
            /\ loaded[k].answer = qa_pairs[k].answer

IsToolUse(block) == block.type = "tool_use"

\* The tool-invocation requests of a response, in the order of the response.
ToolUses(content) == SelectSeq(content, IsToolUse)

\* C15: where the second model-service call is made, the first response
\* stopped for tool_use and the conversation is three messages: the user's
\* question, the assistant's first response as received, and one user
\* message with one tool_result block per request of the first response,
\* in the order of the requests, the n-th block with the id of the n-th
\* request.  Where a tool is called, the calls for all earlier requests
\* have returned (their results are at hand, in order), the call to make is
\* for the next request, and the results are not in the conversation yet.
C15_SecondCallConversation ==
  LET requests == ToolUses(response.content)
      question == [role |-> "user", content |-> qa_pairs[i].question]
      first == [role |-> "assistant", content |-> response.content]
  IN  /\ pc = "second_call" =>
           /\ response.stop_reason = "tool_use"
           /\ Len(messages) = 3
           /\ messages[1] = question
           /\ messages[2] = first
           /\ messages[3].role = "user"
           /\ Len(messages[3].content) = Len(requests)
           /\ \A n \in 1..Len(requests) :
                /\ messages[3].content[n].type = "tool_result"
                /\ messages[3].content[n].tool_use_id = requests[n].id
      /\ pc = "tool_call" =>
           /\ messages = <<question, first>>
           /\ Len(tool_results) = tool_calls
           /\ tool_calls < Len(requests)
           /\ response.content[blk] = requests[tool_calls + 1]
           /\ \A n \in 1..Len(tool_results) : tool_results[n].tool_use_id = requests[n].id

\* The second call is about to be made after a first response of a text
\* block and a request: the one tool_result block has the request's id.
C15_Witness ==
  /\ pc = "second_call"
  /\ Len(response.content) = 2
  /\ response.content[1].type = "text"
  /\ response.content[2].type = "tool_use"
  /\ Len(messages) = 3
  /\ Len(messages[3].content) = 1
  /\ messages[3].content[1].tool_use_id = response.content[2].id
  /\ tool_calls = 1

IsTextBlock(block) == block.type = "text"

\* The text segments of a response joined in the order of the response.
RECURSIVE JoinSegments(_)
JoinSegments(segments) ==
  IF segments = <<>> THEN <<>> ELSE Head(segments).text \o JoinSegments(Tail(segments))

\* t is s without the whitespace at its ends: s is some spaces, t, and some
\* spaces, and t neither starts nor ends with a space.
IsTrimOf(t, s) ==
  /\ \E a, b \in 0..Len(s) :
       /\ a + Len(t) + b = Len(s)
       /\ \A k \in 1..a : s[k] = " "
       /\ \A k \in 1..Len(t) : s[a + k] = t[k]
       /\ \A k \in 1..b : s[a + Len(t) + k] = " "
  /\ t # <<>> => t[1] # " " /\ t[Len(t)] # " "

C17_PromptOnlyOnMismatchInUpdateMode ==
  /\ pc = "prompt" =>
       /\ args_update
       /\ ~FoldedOccurrence(qa_pairs[i].answer, final_answer)
  /\ \A k \in 1..Len(decisions) : decisions[k] # "none" => args_update
  /\ ~args_update =>
       /\ \A k \in 1..Len(decisions) : decisions[k] = "none"
       /\ qa_pairs = loaded
       /\ ~updates_made
       /\ saves = 0
       /\ writes = 0

\* A run outside update mode is over with two questions done, one of them
\* failed; nobody was asked and the dataset is as loaded.
C17_Witness ==
  /\ pc = "done"
  /\ ~args_update
  /\ Len(results) = 2
  /\ ~results[1].passed
  /\ decisions = <<"none", "none">>
  /\ qa_pairs = loaded
  /\ writes = 0

\* C18: in every mode and after any decisions of the operator, the
\* results are a prefix of the dataset (the j-th result has the question of
\* the j-th pair, and there are no more results than pairs), and every
\* result is passed exactly when its recorded expected answer, case-folded,
\* occurs in its recorded actual answer, case-folded.  After an accepted
\* update the recorded expected answer is the new answer of the pair, equal
\* to the actual answer; otherwise it is the answer as loaded.
C18_ResultsInvariant ==
  /\ Len(results) <= Len(qa_pairs)
  /\ \A j \in 1..Len(results) :
       /\ results[j].question = qa_pairs[j].question
       /\ results[j].passed <=> FoldedOccurrence(results[j].expected, results[j].actual)
       /\ decisions[j] = "accept" =>
            /\ results[j].expected = results[j].actual
            /\ results[j].expected = qa_pairs[j].answer
       /\ decisions[j] # "accept" => results[j].expected = loaded[j].answer

\* The operator accepted the answer of the first question, which is not
\* the answer that was loaded, and declined that of the second.
C18_Witness ==
  /\ Len(results) = 2
  /\ decisions = <<"accept", "decline">>
  /\ results[1].passed
  /\ results[1].expected # loaded[1].answer
  /\ results[1].expected = results[1].actual
  /\ ~results[2].passed

\* The run has called save_evaluation_file and the write went through.
WrittenBack == saves = 1 /\ writes = 1 /\ file.wellformed

\* C19 as claimed: every file that a run has written back loads in a
\* following run (the parse of lines 64-76 does not fail on it) and gives
\* the pairs that were in memory when it was saved, whatever answers the
\* operator accepted, the empty answer among them.
C19_WrittenFileLoads ==
  WrittenBack =>
    /\ ~ParseFails(file)
    /\ ParsePairs(file) = qa_pairs

\* The operator accepted an update, and a later question ended the loop
\* with a failure of the model service or of a tool call.
AcceptedThenFailed ==
  /\ failure.kind \in {"model", "tool_execution", "tool_transport"}
  /\ \E k \in 1..Len(decisions) : decisions[k] = "accept" /\ k < failure.at

\* C20: after an accepted update and a later failure of the model service
\* or of a tool call, the session is closed and the run goes on to the
\* write-back and then the summary: save_evaluation_file has not been
\* called before the write-back step, and has been called once, with no
\* summary printed yet, after it.  The dataset in memory is the dataset as
\* loaded with the answer of every accepted question replaced by the
\* accepted answer, and a write that went through has written all of it.
C20_SaveAfterAbort ==
  AcceptedThenFailed =>
    /\ AfterLoop
    /\ session = "closed"
    /\ pc = "after_loop" => saves = 0 /\ writes = 0 /\ ~summary.printed
    /\ pc = "summary" => saves = 1 /\ ~summary.printed
    /\ pc = "done" => saves = 1 /\ summary.printed
    /\ Len(qa_pairs) = Len(loaded)
    /\ \A j \in 1..Len(qa_pairs) :
         /\ qa_pairs[j].question = loaded[j].question
         /\ qa_pairs[j].answer =
              IF j <= Len(decisions) /\ decisions[j] = "accept"
              THEN results[j].actual
              ELSE loaded[j].answer
    /\ WrittenBack =>
         /\ Len(file.pairs) = Len(qa_pairs)
         /\ \A j \in 1..Len(qa_pairs) :
              /\ file.pairs[j].question.text = qa_pairs[j].question
              /\ file.pairs[j].answer.text = qa_pairs[j].answer

\* The operator accepted a non-empty answer for the first question, the
\* model service failed on the second, and the run is over with both pairs
\* written: the first with the accepted answer, the second as loaded.
C20_Witness ==
  /\ pc = "done"
  /\ decisions = <<"accept">>
  /\ failure = [kind |-> "model", at |-> 2]
  /\ WrittenBack
  /\ Len(file.pairs) = 2
  /\ results[1].actual # <<>>
  /\ file.pairs[1].answer.text = results[1].actual
  /\ file.pairs[2].answer.text = loaded[2].answer
  /\ summary.printed

TypeOK ==
  /\ pc \in {"start", "parse", "connect", "initialize", "list_tools", "first_call",
             "tool_call", "second_call", "prompt", "after_loop", "summary", "done"}
  /\ session \in {"unopened", "open", "closed"}
  /\ i \in 0..MaxPairs
  /\ Len(results) <= Len(qa_pairs)
  /\ Len(decisions) = Len(results)
  /\ Len(qa_pairs) <= MaxPairs

====
